---- MODULE Spec2Model ----
(***************************************************************************)
(* Model of classifier.py: the Dispatcher object (timing buffer, write     *)
(* index, first-frame latch, working resolution) and the control flow of   *)
(* Dispatcher.start, cut at its blocking calls (waitKey, cap.read).        *)
(* The collaborators the program only calls (OpenCV capture, clock,        *)
(* detectMultiScale, key presses) are inputs drawn from small sets.        *)
(***************************************************************************)
EXTENDS Integers, Sequences, FiniteSets, TLC

\* ------------------------------------------------------------------ bounds
MaxModels == 2      \* most cascade models given to the constructor
MaxFrames == 2      \* largest frame count a capture source reports

\* --------------------------------------------------------------- constants
ESC == 27           \* key code compared with cv.waitKey's result
Grain == 2          \* clock ticks per representable step of the 'f' buffer

\* Python's None and a present value v are <<>> and <<v>>; a string that may
\* be None uses the string NoStr
None == <<>>
Some(v) == <<v>>
Val(o) == o[1]
NoStr == "None"
Uninit == -1        \* a slot of np.empty that was never written

\* --------------------------------------------------------- input universes
CameraSource == "0"
FileSource == "clip.avi"
Sources == {NoStr, CameraSource, FileSource}
Images == {NoStr, "pic.png"}
Keys == {ESC, 32, -1}            \* Escape, another key, no key (timeout)
SquareWindow == <<24, 24>>
WideWindow == <<20, 10>>
\* the model lists given to the constructor: all square, all wide, alternating
ModelLists(n) == {[i \in 1..n |-> SquareWindow], [i \in 1..n |-> WideWindow],
                  [i \in 1..n |-> IF i % 2 = 1 THEN WideWindow ELSE SquareWindow]}
Frames == {[width |-> 4, height |-> 2], [width |-> 2, height |-> 4]}
Rect1 == <<1, 0, 2, 1>>
Rect2 == <<0, 1, 1, 2>>
\* what detectMultiScale returns, per model: nothing anywhere, two rectangles
\* from every model, or two rectangles from every other model
DetectInputs(n) == {[i \in 1..n |-> <<>>], [i \in 1..n |-> <<Rect2, Rect1>>],
                    [i \in 1..n |-> IF i % 2 = 1 THEN <<>> ELSE <<Rect1, Rect2>>]}
Elapsed == {1, 2}                \* clock ticks a detection pass may take
LandscapeSize == [width |-> 3, height |-> 2]
PortraitSize == [width |-> 2, height |-> 3]

VARIABLES
    \* constructor arguments and the argument of start
    video_source, image, processed_frame_preview, models_cascade, colors,
    \* Dispatcher fields
    start_time_int, times, times_index, is_first_frame, display_size,
    \* locals of start and its position
    pc, cap, frames_number, frame,
    \* environment: the wall clock and the frames the source has delivered
    now, frames_delivered,
    \* results of the last detect call and what display.show was given
    obj_lists, original_frame_regions_list, processed_frame_regions_list, shown,
    \* observations: calls made and lines logged
    reads, detect_calls, shows, preprocess_calls, timer_starts, timer_ends,
    time_logs, logged_elapsed, write_index, error_logs, stats,
    exit_status, error

config == <<video_source, image, processed_frame_preview, models_cascade, colors>>
fields == <<start_time_int, times, times_index, is_first_frame, display_size>>
detect_out == <<obj_lists, original_frame_regions_list,
                processed_frame_regions_list, shown>>
detect_obs == <<detect_calls, shows, preprocess_calls, timer_starts, timer_ends,
                time_logs, logged_elapsed, write_index>>
vars == <<config, fields, pc, cap, frames_number, frame, now,
          frames_delivered, detect_out, detect_obs, reads, error_logs, stats,
          exit_status, error>>

\* ----------------------------------------------------------------- helpers
\* str.isnumeric on the source strings of the model
IsNumeric(s) == s = CameraSource

\* narrowing a float64 duration to the buffer's float32 slot: the nearest
\* multiple of Grain, a tie going to the even multiple
ToFloat32(t) ==
    LET q == t \div Grain
        r == t % Grain
    IN  IF 2 * r < Grain THEN q * Grain
        ELSE IF 2 * r > Grain THEN (q + 1) * Grain
        ELSE IF q % 2 = 0 THEN q * Grain ELSE (q + 1) * Grain

RECURSIVE SumSeq(_)
SumSeq(s) == IF s = <<>> THEN 0 ELSE Head(s) + SumSeq(Tail(s))

SetMax(S) == CHOOSE m \in S : \A x \in S : x <= m
SeqMax(s) == CHOOSE m \in {s[i] : i \in 1..Len(s)} : \A i \in 1..Len(s) : s[i] <= m
SeqMin(s) == CHOOSE m \in {s[i] : i \in 1..Len(s)} : \A i \in 1..Len(s) : m <= s[i]

\* cvlib.random_colors(n): n colours, drawn at random, not necessarily distinct
RandomColors(n) == {[i \in 1..n |-> i], [i \in 1..n |-> 1]}

\* cvlib.Display.set_orientation(frame): the working resolution follows the
\* orientation of the frame it is given
SetOrientation(f) == IF f.width >= f.height THEN LandscapeSize ELSE PortraitSize

\* cvlib.Shape
ELLIPSE == "ELLIPSE"
RECTANGLE == "RECTANGLE"

\* cvlib.Region(x, y, w, h, color, shape)
Region(x, y, w, h, color, shape) ==
    [x |-> x, y |-> y, w |-> w, h |-> h, color |-> color, shape |-> shape]

\* real numbers as fractions: a / b and k * (a / b)
Frac(a, b) == [num |-> a, den |-> b]
Times(k, q) == Frac(k * q.num, q.den)

\* ------------------------------------------------------ Dispatcher methods
\* __end_time with the index left where it was after a write
EndTimeNoAdvance(src, tms, idx, start, t_log, t_store) ==
    LET base == [logged |-> Some(t_log - Val(start)), error |-> NoStr,
                 times |-> tms, times_index |-> idx, write_index |-> None]
    IN  IF src = NoStr THEN [base EXCEPT !.error = "TypeError"]
        ELSE IF IsNumeric(src) THEN base
        ELSE IF tms = None THEN [base EXCEPT !.error = "TypeError"]
        ELSE IF idx >= Len(Val(tms)) THEN [base EXCEPT !.error = "IndexError"]
        ELSE [base EXCEPT !.times = Some([Val(tms) EXCEPT ![idx + 1] =
                                            ToFloat32(t_store - Val(start))]),
                          !.write_index = Some(idx)]

\* __end_time over a buffer that accepts an index past its end: the write is
\* dropped and the index advances all the same
EndTimeUnchecked(src, tms, idx, start, t_log, t_store) ==
    LET base == [logged |-> Some(t_log - Val(start)), error |-> NoStr,
                 times |-> tms, times_index |-> idx, write_index |-> None]
    IN  IF src = NoStr THEN [base EXCEPT !.error = "TypeError"]
        ELSE IF IsNumeric(src) THEN base
        ELSE IF tms = None THEN [base EXCEPT !.error = "TypeError"]
        ELSE [base EXCEPT !.times = IF idx < Len(Val(tms))
                                      THEN Some([Val(tms) EXCEPT ![idx + 1] =
                                                   ToFloat32(t_store - Val(start))])
                                      ELSE tms,
                          !.times_index = idx + 1,
                          !.write_index = Some(idx)]

\* __end_time: log the elapsed time, then (source not a camera) store a second
\* reading of it at times[times_index] and advance the index.  idx is 0-based
\* as in the code; the buffer Val(tms) is a 1-based sequence.  The code has no
\* guard of its own: a None buffer raises TypeError and numpy refuses an index
\* past the end with IndexError.  write_index is the slot a write landed in.
EndTime(src, tms, idx, start, t_log, t_store) ==
    LET base == [logged |-> Some(t_log - Val(start)), error |-> NoStr,
                 times |-> tms, times_index |-> idx, write_index |-> None]
    IN  IF src = NoStr
          THEN [base EXCEPT !.error = "TypeError"]       \* str.isnumeric(None)
        ELSE IF IsNumeric(src)
          THEN base
        ELSE IF tms = None
          THEN [base EXCEPT !.error = "TypeError"]       \* None[idx] = ...
        ELSE IF idx >= Len(Val(tms))
          THEN [base EXCEPT !.error = "IndexError"]
        ELSE [base EXCEPT !.times = Some([Val(tms) EXCEPT ![idx + 1] =
                                            ToFloat32(t_store - Val(start))]),
                          !.times_index = idx + 1,
                          !.write_index = Some(idx)]

\* preprocess with the latch never released: every frame sets the resolution
PreprocessNoLatch(f, first, size) ==
    IF f = None
      THEN [error |-> "cv2.error", is_first_frame |-> first, size |-> size,
            out |-> None]
      ELSE LET size2 == Some(SetOrientation(Val(f)))
           IN  [error |-> NoStr, is_first_frame |-> FALSE, size |-> size2,
                out |-> Some([width |-> Val(size2).width,
                              height |-> Val(size2).height, of |-> Val(f)])]

\* preprocess: grayscale, latch the working resolution on the first frame,
\* resize to it, equalise.  cvtColor raises on a frame that is None.
Preprocess(f, first, size) ==
    IF f = None
      THEN [error |-> "cv2.error", is_first_frame |-> first, size |-> size,
            out |-> None]
      ELSE LET size2 == IF first THEN Some(SetOrientation(Val(f))) ELSE size
           IN  [error |-> NoStr, is_first_frame |-> FALSE, size |-> size2,
                out |-> Some([width |-> Val(size2).width,
                              height |-> Val(size2).height, of |-> Val(f)])]

\* the shape of a model: an ellipse when its native window is square
ShapeOf(window) == IF Cardinality({window[1], window[2]}) = 1 THEN ELLIPSE ELSE RECTANGLE

\* the regions of one model's detections with one scale factor for both axes
RegionsOfOneScale(obj_list, f, size, color, shape) ==
    LET scale_factor_x == Frac(f.width, size.width)
    IN  [proc |-> [k \in 1..Len(obj_list) |->
                     Region(obj_list[k][1], obj_list[k][2], obj_list[k][3],
                            obj_list[k][4], color, shape)],
         orig |-> [k \in 1..Len(obj_list) |->
                     Region(Times(obj_list[k][1], scale_factor_x),
                            Times(obj_list[k][2], scale_factor_x),
                            Times(obj_list[k][3], scale_factor_x),
                            Times(obj_list[k][4], scale_factor_x), color, shape)]]

\* the regions of one model's detections, in working and in original space
RegionsOf(obj_list, f, size, color, shape) ==
    LET scale_factor_x == Frac(f.width, size.width)
        scale_factor_y == Frac(f.height, size.height)
    IN  [proc |-> [k \in 1..Len(obj_list) |->
                     Region(obj_list[k][1], obj_list[k][2], obj_list[k][3],
                            obj_list[k][4], color, shape)],
         orig |-> [k \in 1..Len(obj_list) |->
                     Region(Times(obj_list[k][1], scale_factor_x),
                            Times(obj_list[k][2], scale_factor_y),
                            Times(obj_list[k][3], scale_factor_x),
                            Times(obj_list[k][4], scale_factor_y), color, shape)]]

\* one iteration of detect's loop over zip(models_cascade, colors)
DetectStep(i, st, f, dets) ==
    LET p == Preprocess(f, st.is_first_frame, st.size)
    IN  IF p.error # NoStr
          THEN [st EXCEPT !.error = p.error,
                          !.preprocess_calls = st.preprocess_calls + 1]
          ELSE LET r == RegionsOf(dets[i], Val(f), Val(p.size), colors[i],
                                  ShapeOf(models_cascade[i]))
               IN  [error |-> NoStr,
                    is_first_frame |-> p.is_first_frame,
                    size |-> p.size,
                    processed_frame |-> p.out,
                    preprocess_calls |-> st.preprocess_calls + 1,
                    proc |-> st.proc \o r.proc,
                    orig |-> st.orig \o r.orig]

RECURSIVE DetectLoop(_, _, _, _)
DetectLoop(i, st, f, dets) ==
    IF i > Len(models_cascade) \/ i > Len(colors) \/ st.error # NoStr
      THEN st
      ELSE DetectLoop(i + 1, DetectStep(i, st, f, dets), f, dets)

\* detect: start the timer, run every model, stop the timer, return the lists.
\* The clock reads t_start at __start_time, t_log and t_store in __end_time.
Detect(f, dets, t_start, t_log, t_store) ==
    LET st0 == [error |-> NoStr, is_first_frame |-> is_first_frame,
                size |-> display_size, processed_frame |-> None,
                preprocess_calls |-> 0, proc |-> <<>>, orig |-> <<>>]
        st == DetectLoop(1, st0, f, dets)
        e == EndTime(video_source, times, times_index, Some(t_start), t_log, t_store)
        ended == st.error = NoStr
        ok == ended /\ e.error = NoStr
    IN  [error |-> IF ended THEN e.error ELSE st.error,
         ended |-> ended,
         is_first_frame |-> st.is_first_frame,
         size |-> st.size,
         preprocess_calls |-> st.preprocess_calls,
         proc |-> st.proc,
         orig |-> st.orig,
         logged |-> IF ended THEN e.logged ELSE None,
         times |-> IF ended THEN e.times ELSE times,
         times_index |-> IF ended THEN e.times_index ELSE times_index,
         write_index |-> IF ended THEN e.write_index ELSE None,
         returned |-> IF ~ok THEN None
                      ELSE IF ~processed_frame_preview
                        THEN Some([regions |-> st.orig, frame_p |-> None,
                                   frame_reg_p |-> None])
                        ELSE Some([regions |-> st.orig, frame_p |-> st.processed_frame,
                                   frame_reg_p |-> Some(st.proc)])]

\* np.average, np.amax, np.amin over times[:times_index], as logged at the end
\* of start: the mean of an empty slice is nan, the maximum of one raises
NaN == Frac(0, 0)
Stats(tms, idx) ==
    LET prefix == SubSeq(tms, 1, idx)
    IN  IF prefix = <<>>
          THEN [logged |-> <<NaN>>, error |-> "ValueError"]
          ELSE [logged |-> <<Frac(SumSeq(prefix), Len(prefix)),
                             Frac(SeqMax(prefix), 1), Frac(SeqMin(prefix), 1)>>,
                error |-> NoStr]

\* CAP_PROP_FRAME_COUNT as the capture reports it: 0 when it did not open,
\* not positive for a camera, any count for a file
FrameCounts(src, opened) ==
    IF ~opened THEN {0}
    ELSE IF IsNumeric(src) THEN {-1, 0}
    ELSE 0..MaxFrames

\* ------------------------------------------------------------------- state
Init ==
    /\ video_source \in Sources
    /\ image \in Images
    /\ processed_frame_preview \in BOOLEAN
    /\ models_cascade \in UNION {ModelLists(n) : n \in 1..MaxModels}
    /\ colors \in RandomColors(Len(models_cascade))
    /\ start_time_int = None
    /\ times = None
    /\ times_index = 0
    /\ is_first_frame = TRUE
    /\ display_size = None
    /\ pc = "start"
    /\ cap = "none"
    /\ frames_number = None
    /\ frame = None
    /\ now = 0
    /\ frames_delivered = 0
    /\ obj_lists = <<>>
    /\ original_frame_regions_list = <<>>
    /\ processed_frame_regions_list = <<>>
    /\ shown = None
    /\ reads = 0
    /\ detect_calls = 0
    /\ shows = 0
    /\ preprocess_calls = 0
    /\ timer_starts = 0
    /\ timer_ends = 0
    /\ time_logs = 0
    /\ logged_elapsed = None
    /\ write_index = None
    /\ error_logs = 0
    /\ stats = <<>>
    /\ exit_status = None
    /\ error = NoStr

\* an uncaught exception ends the process
Raise(err) ==
    /\ pc' = "raised"
    /\ error' = err
    /\ exit_status' = Some(1)

\* detect_and_display(frame): detect, then display.show with what it returned
DetectAndDisplay(f, dets, t_log, t_store, next_pc) ==
    \E r \in {Detect(f, dets, now, t_log, t_store)} :
        /\ frame' = f
        /\ obj_lists' = dets
        /\ start_time_int' = Some(now)
        /\ is_first_frame' = r.is_first_frame
        /\ display_size' = r.size
        /\ times' = r.times
        /\ times_index' = r.times_index
        /\ original_frame_regions_list' = r.orig
        /\ processed_frame_regions_list' = r.proc
        /\ detect_calls' = detect_calls + 1
        /\ preprocess_calls' = r.preprocess_calls
        /\ timer_starts' = 1
        /\ timer_ends' = IF r.ended THEN 1 ELSE 0
        /\ time_logs' = IF r.ended THEN time_logs + 1 ELSE time_logs
        /\ logged_elapsed' = r.logged
        /\ write_index' = r.write_index
        /\ now' = now + SetMax(Elapsed)
        /\ IF r.error = NoStr
             THEN /\ shown' = Some([frame |-> Val(f), ret |-> Val(r.returned)])
                  /\ shows' = shows + 1
                  /\ pc' = next_pc
                  /\ UNCHANGED <<error, exit_status>>
             ELSE /\ Raise(r.error)
                  /\ UNCHANGED <<shown, shows>>

\* the clock readings of one detect call
LogTimes == {now + d : d \in Elapsed}
StoreTimes(t_log) == {t \in LogTimes : t >= t_log}

\* the allocation test letting a count of 0 through
AllocatesBufferNonNegative(n) == n >= 0

\* if frames_number > 0: the timing buffer is allocated
AllocatesBuffer(n) == n > 0

\* the fatal branch never taken
NotOpenedIgnored(opened) == FALSE

\* if not cap.isOpened(): the fatal branch
NotOpened(opened) == ~opened

\* start, from cv.VideoCapture(...) to the first cap.read()
OpenCapture ==
    /\ UNCHANGED <<config, start_time_int, times_index, is_first_frame,
                   display_size, frame, now, frames_delivered, detect_out,
                   detect_obs, reads, stats>>
    /\ IF video_source = NoStr
         THEN /\ Raise("TypeError")                      \* str.isnumeric(None)
              /\ UNCHANGED <<cap, frames_number, times, error_logs>>
         ELSE \E opened \in BOOLEAN :
              \E n \in FrameCounts(video_source, opened) :
                /\ cap' = IF opened THEN "opened" ELSE "failed"
                /\ frames_number' = Some(n)
                /\ times' = IF AllocatesBuffer(n) THEN Some([i \in 1..n |-> Uninit])
                                              ELSE times
                /\ IF NotOpened(opened)
                     THEN /\ error_logs' = error_logs + 1
                          /\ pc' = "exited"
                          /\ exit_status' = Some(1)
                          /\ error' = error
                     ELSE /\ pc' = "read"
                          /\ UNCHANGED <<error_logs, exit_status, error>>

\* start, after the loop: the end-of-run statistics
Report ==
    /\ UNCHANGED <<config, fields, cap, frames_number, now, frames_delivered,
                   detect_out, detect_obs, error_logs>>
    /\ IF Val(frames_number) > 0
         THEN LET s == Stats(Val(times), times_index)
              IN  /\ stats' = s.logged
                  /\ IF s.error = NoStr
                       THEN /\ pc' = "returned"
                            /\ exit_status' = Some(0)
                            /\ error' = error
                       ELSE Raise(s.error)
         ELSE /\ pc' = "returned"
              /\ exit_status' = Some(0)
              /\ UNCHANGED <<stats, error>>

\* ----------------------------------------------------------------- actions
\* start, up to its first blocking call: with an image, imread and one
\* detect_and_display, then waitKey(0); without one, the capture is opened
Start ==
    /\ pc = "start"
    /\ IF image # NoStr
         THEN /\ \E f \in {None} \cup {Some(x) : x \in Frames} :
                 \E dets \in DetectInputs(Len(models_cascade)) :
                 \E t_log \in LogTimes :
                 \E t_store \in StoreTimes(t_log) :
                    DetectAndDisplay(f, dets, t_log, t_store, "image_key")
              /\ UNCHANGED <<config, cap, frames_number, frames_delivered,
                             reads, error_logs, stats>>
         ELSE OpenCapture

\* cv.waitKey(0) returns after the image was shown: Escape returns from start,
\* any other key goes on to the capture
ImageKey ==
    /\ pc = "image_key"
    /\ \E key \in Keys :
         IF key = ESC
           THEN /\ pc' = "returned"
                /\ exit_status' = Some(0)
                /\ UNCHANGED <<config, fields, cap, frames_number, frame, now,
                               frames_delivered, detect_out, detect_obs, reads,
                               error_logs, stats, error>>
           ELSE OpenCapture

\* cap.read() returns: no frame ends the loop, a frame is detected and shown
ReadFrame ==
    /\ pc = "read"
    /\ reads' = reads + 1
    /\ \/ /\ frame' = None
          /\ Report
       \/ /\ frames_delivered <= MaxFrames
          /\ frames_delivered' = frames_delivered + 1
          /\ \E f \in Frames :
             \E dets \in DetectInputs(Len(models_cascade)) :
             \E t_log \in LogTimes :
             \E t_store \in StoreTimes(t_log) :
                DetectAndDisplay(Some(f), dets, t_log, t_store, "loop_key")
          /\ UNCHANGED <<config, cap, frames_number, error_logs, stats>>

\* cv.waitKey(1) returns after a frame was shown: Escape breaks the loop
LoopKey ==
    /\ pc = "loop_key"
    /\ \E key \in Keys :
         IF key = ESC
           THEN /\ Report
                /\ UNCHANGED <<frame, reads>>
           ELSE /\ pc' = "read"
                /\ UNCHANGED <<config, fields, cap, frames_number, frame, now,
                               frames_delivered, detect_out, detect_obs, reads,
                               error_logs, stats, exit_status, error>>

Next == Start \/ ImageKey \/ ReadFrame \/ LoopKey

Spec == Init /\ [][Next]_vars

\* ------------------------------------------------------------------ claims
\* the streaming loop was left: by end of stream or Escape, whether the
\* statistics that follow were logged or raised
LoopExited ==
    /\ cap = "opened"
    /\ pc = "returned" \/ (pc = "raised" /\ error = "ValueError")

\* the written prefix times[0 .. times_index-1]
Prefix == SubSeq(Val(times), 1, times_index)

\* C1: with an image path set, detect+display runs once and the capture is
\* never opened nor read, whatever key the key wait returns.
C1_SingleImageNeverStreams ==
    image # NoStr => (cap # "opened" /\ reads = 0 /\ detect_calls <= 1)

\* C2: in streaming mode a capture that cannot be opened logs an error and
\* exits with status 1: nothing read, nothing detected, index 0, no statistics.
C2_UnopenableSourceExits ==
    (image = NoStr /\ cap = "failed") =>
        /\ pc = "exited"
        /\ exit_status = Some(1)
        /\ error_logs = 1
        /\ reads = 0
        /\ detect_calls = 0
        /\ times_index = 0
        /\ stats = <<>>

C2_Witness == image = NoStr /\ cap = "failed" /\ pc = "exited" /\ exit_status = Some(1)

\* C3: an allocated timing buffer of length N holds exactly times_index
\* written slots, the first ones, with 0 <= times_index <= N, and every write
\* that landed did so at an index < N, also when the source delivers more
\* frames than it reported.
C3_BufferNeverOverrun ==
    times # None =>
        LET N == Len(Val(times))
        IN  /\ frames_number = Some(N)
            /\ 0 <= times_index /\ times_index <= N
            /\ write_index # None => Val(write_index) < N
            /\ \A i \in 1..N : (Val(times)[i] # Uninit) <=> (i <= times_index)

\* the source delivered one frame more than the count it reported
C3_Witness ==
    /\ times # None
    /\ times_index = Len(Val(times))
    /\ frames_delivered = Len(Val(times)) + 1
    /\ error = "IndexError"

\* C4: when the loop is left and a buffer was allocated, the average, maximum
\* and minimum of exactly the written prefix are reported, for every number of
\* frames timed, none included.
C4_StatsOverWrittenPrefix ==
    (frames_number # None /\ LoopExited /\ Val(frames_number) > 0) =>
        /\ Len(stats) = 3
        /\ stats[1].den # 0
        /\ stats[1].num * times_index = SumSeq(Prefix) * stats[1].den
        /\ stats[2].den = 1 /\ stats[3].den = 1
        /\ \E i \in 1..times_index : Prefix[i] = stats[2].num
        /\ \E i \in 1..times_index : Prefix[i] = stats[3].num
        /\ \A i \in 1..times_index : stats[3].num <= Prefix[i] /\ Prefix[i] <= stats[2].num

\* C5: with a camera source the timing buffer is never allocated, every frame
\* processed has its elapsed time logged once, and no statistics are reported.
C5_CameraNoBuffer ==
    IsNumeric(video_source) =>
        /\ times = None
        /\ times_index = 0
        /\ write_index = None
        /\ time_logs = shows
        /\ stats = <<>>

C5_Witness ==
    /\ IsNumeric(video_source)
    /\ cap = "opened"
    /\ pc = "returned"
    /\ shows >= 2
    /\ time_logs >= 2

\* C6: the working resolution is set once, by the preprocess call that turns
\* is_first_frame from true to false, from that frame; afterwards neither the
\* latch nor the resolution changes, whatever the later frames' dimensions.
C6_FirstFrameLatch ==
    [][ /\ ~is_first_frame => (~is_first_frame' /\ display_size' = display_size)
        /\ (is_first_frame /\ ~is_first_frame') =>
              /\ display_size = None
              /\ preprocess_calls' >= 1
              /\ frame' # None
              /\ display_size' = Some(SetOrientation(Val(frame')))
        /\ is_first_frame' => display_size' = None ]_vars

\* a later frame of another orientation was processed at the latched resolution
C6_Witness ==
    /\ ~is_first_frame
    /\ shows >= 2
    /\ frame # None
    /\ display_size # Some(SetOrientation(Val(frame)))

\* the detections of the last detect call, in model order, each with its model
RECURSIVE C7_Detections(_)
C7_Detections(i) ==
    IF i > Len(obj_lists) THEN <<>>
    ELSE [k \in 1..Len(obj_lists[i]) |-> [model |-> i, rect |-> obj_lists[i][k]]]
         \o C7_Detections(i + 1)

\* q is k times (a / b)
C7_IsScaled(q, k, a, b) == q.den # 0 /\ b # 0 /\ q.num * b = k * a * q.den

\* C7: each detection (x, y, w, h) yields the original-space region
\* (x*sx, y*sy, w*sx, h*sy), sx and sy taken from the current frame and the
\* latched working resolution, and the working-space region (x, y, w, h);
\* both carry the model's colour and shape, and detect returns the former.
C7_RescaleExact ==
    (frame # None /\ display_size # None /\ timer_ends = 1) =>
        LET d == C7_Detections(1)
            W == Val(frame).width
            H == Val(frame).height
            ww == Val(display_size).width
            wh == Val(display_size).height
            o == original_frame_regions_list
            p == processed_frame_regions_list
        IN  /\ Len(o) = Len(d)
            /\ Len(p) = Len(d)
            /\ \A k \in 1..Len(d) :
                 LET r == d[k].rect
                     c == colors[d[k].model]
                     win == models_cascade[d[k].model]
                     sh == IF win[1] = win[2] THEN ELLIPSE ELSE RECTANGLE
                 IN  /\ C7_IsScaled(o[k].x, r[1], W, ww)
                     /\ C7_IsScaled(o[k].y, r[2], H, wh)
                     /\ C7_IsScaled(o[k].w, r[3], W, ww)
                     /\ C7_IsScaled(o[k].h, r[4], H, wh)
                     /\ o[k].color = c /\ o[k].shape = sh
                     /\ p[k] = [x |-> r[1], y |-> r[2], w |-> r[3], h |-> r[4],
                                color |-> c, shape |-> sh]
            /\ pc \in {"image_key", "loop_key"} => Val(shown).ret.regions = o

\* two models detected on a frame whose axes scale differently
C7_Witness ==
    /\ pc = "loop_key"
    /\ Len(models_cascade) >= 2
    /\ Len(original_frame_regions_list) >= 4
    /\ Val(frame).width * Val(display_size).height
         # Val(frame).height * Val(display_size).width

\* C8: for a file source that reported N > 0 frames, once the loop is left the
\* index equals the number of frames read and shown, and is at most N.
C8_FilledIndexCountsFrames ==
    (/\ ~IsNumeric(video_source)
     /\ frames_number # None
     /\ LoopExited
     /\ Val(frames_number) > 0) =>
        /\ times_index = frames_delivered
        /\ times_index = shows
        /\ times_index <= Val(frames_number)

\* Escape pressed after the first of two reported frames
C8_Witness ==
    /\ ~IsNumeric(video_source)
    /\ frames_number = Some(2)
    /\ pc = "returned"
    /\ frame # None
    /\ times_index = 1
    /\ shows = 1

\* C9: a detect call starts and stops the timer once and logs the elapsed
\* time; on a camera it leaves buffer and index alone, otherwise the buffer is
\* allocated and the duration lands at the next free index, which advances by
\* one.
C9_AppendTargetsAllocatedBuffer ==
    (detect_calls > 0 /\ timer_ends = 1 /\ video_source # NoStr) =>
        /\ timer_starts = 1
        /\ logged_elapsed # None
        /\ IF IsNumeric(video_source)
             THEN write_index = None /\ times_index = 0
             ELSE /\ times # None
                  /\ write_index # None
                  /\ times_index = Val(write_index) + 1

\* C10: within one detect call the frame is preprocessed once, however many
\* models are configured.
C10_PreprocessOncePerFrame ==
    (timer_ends = 1 /\ error = NoStr) => preprocess_calls = 1
====
